---- MODULE Spec2Model ----
(***************************************************************************)
(* A model of changesummary.py: the ChangeSummary class that compares the  *)
(* discovery artifacts of two directories and writes allapis.summary and   *)
(* one <api>.verbose file per api.                                         *)
(*                                                                         *)
(* Python strings are sequences of one-character strings, so that          *)
(* str.split, str.contains(case=False) and the ordering that sort_values   *)
(* uses are computed, not assumed.  A pandas dataframe is the sequence of  *)
(* its rows.  A missing cell (NaN) is the value NaN, JSON null is the      *)
(* value JNull (Python None); pandas counts both as null.                 *)
(***************************************************************************)
EXTENDS Integers, Sequences, FiniteSets, TLC

\* ------------------------------------------------------------------ strings

\* The digits, the upper-case and the lower-case letters, each in code-point
\* order.
Digits == << "0", "1", "2", "3", "4", "5", "6", "7", "8", "9" >>

UpperCase ==
  << "A", "B", "C", "D", "E", "F", "G", "H", "I", "J", "K", "L", "M", "N",
     "O", "P", "Q", "R", "S", "T", "U", "V", "W", "X", "Y", "Z" >>

LowerCase ==
  << "a", "b", "c", "d", "e", "f", "g", "h", "i", "j", "k", "l", "m", "n",
     "o", "p", "q", "r", "s", "t", "u", "v", "w", "x", "y", "z" >>

IndexOf(seq, c) == CHOOSE i \in 1..Len(seq) : seq[i] = c

InSeq(seq, c) == \E i \in 1..Len(seq) : seq[i] = c

\* The characters that file names and keys are made of.
Characters ==
  {".", "_"} \cup {Digits[i] : i \in 1..Len(Digits)}
    \cup {UpperCase[i] : i \in 1..Len(UpperCase)}
    \cup {LowerCase[i] : i \in 1..Len(LowerCase)}

\* The code point of each character.
CodePoint ==
  [c \in Characters |->
     IF c = "." THEN 46
     ELSE IF InSeq(Digits, c) THEN 47 + IndexOf(Digits, c)
     ELSE IF InSeq(UpperCase, c) THEN 64 + IndexOf(UpperCase, c)
     ELSE IF c = "_" THEN 95
     ELSE 96 + IndexOf(LowerCase, c)]

\* ord(c)
Ord(c) == CodePoint[c]

\* The lower-case form of each character.
LowerCaseOf ==
  [c \in Characters |->
     IF InSeq(UpperCase, c) THEN LowerCase[IndexOf(UpperCase, c)] ELSE c]

\* c.lower() for one character
LowerChar(c) == LowerCaseOf[c]

\* s.lower()
Lower(s) == [i \in 1..Len(s) |-> LowerChar(s[i])]

\* The order of Python strings, s < t: lexicographic by code point.
RECURSIVE StrLess(_, _)
StrLess(s, t) ==
  IF t = <<>> THEN FALSE
  ELSE IF s = <<>> THEN TRUE
  ELSE IF s[1] # t[1] THEN Ord(s[1]) < Ord(t[1])
  ELSE StrLess(Tail(s), Tail(t))

\* sub in s
Contains(s, sub) ==
  \E i \in 1..(Len(s) - Len(sub) + 1) : SubSeq(s, i, i + Len(sub) - 1) = sub

\* s.split('.')
RECURSIVE SplitDot(_)
SplitDot(s) ==
  IF \A i \in 1..Len(s) : s[i] # "."
  THEN << s >>
  ELSE LET d == CHOOSE i \in 1..Len(s) :
                  s[i] = "." /\ \A j \in 1..(i - 1) : s[j] # "."
       IN  << SubSeq(s, 1, d - 1) >> \o SplitDot(SubSeq(s, d + 1, Len(s)))

\* ------------------------------------------------------------- ChangeType

UNKNOWN == 0
DELETED == 1
ADDED == 2
CHANGED == 3

\* -------------------------------------------------------- program constants

MULTIPROCESSING_NUM_PER_BATCH == 5
MULTIPROCESSING_NUM_AGENTS == 10

\* ------------------------------------------------------------ JSON values

\* The JSON scalars of the model, by their literal.  JNull is what json.load
\* turns into None; NaN is the cell pandas fills in where a column is missing.
JStrX == "'x'"
JStrY == "'y'"
JOne == "1"
JTrue == "true"
JNull == "null"
NaN == "NaN"

\* Python's numeric value of the literals that have one (bool is an int).
IsNumber(v) == v \in {"0", "1", "true", "false"}

NumberOf(v) == IF v \in {"1", "true"} THEN 1 ELSE 0

\* Python's x == y on two loaded scalars.
PyEq(x, y) ==
  IF IsNumber(x) /\ IsNumber(y) THEN NumberOf(x) = NumberOf(y) ELSE x = y

\* pandas isnull(): None and NaN.
IsNull(v) == v \in {JNull, NaN}

\* A JSON value is <<"scalar", literal>> or <<"object", members>>; an object's
\* members are a sequence of <<key, value>> in document order.
Scalar(v) == << "scalar", v >>

Object(members) == << "object", members >>

\* _normalise_json: the members of a nested dict, flattened in document
\* order, each key prefixed by the path to it and the separator '.'.
RECURSIVE NormaliseJson(_, _)
NormaliseJson(members, prefix) ==
  IF members = <<>> THEN <<>>
  ELSE LET m == Head(members)
           path == prefix \o m[1]
       IN  (IF m[2][1] = "scalar"
            THEN << << path, m[2][2] >> >>
            ELSE NormaliseJson(m[2][2], path \o << "." >>))
           \o NormaliseJson(Tail(members), prefix)

IsScalarMember(m) == m[2][1] = "scalar"

IsObjectMember(m) == m[2][1] = "object"

\* pd.json_normalize(doc) of one dict: a one-row frame, here the sequence of
\* its <<column, cell>>: the top-level scalars first, then the nested dicts
\* flattened.
JsonNormalize(doc) ==
  NormaliseJson(SelectSeq(doc, IsScalarMember), <<>>)
    \o NormaliseJson(SelectSeq(doc, IsObjectMember), <<>>)

\* A directory entry: the file is there with its parsed JSON, or it is not.
File(doc) == [found |-> TRUE, doc |-> doc]

NoFile == [found |-> FALSE, doc |-> <<>>]

\* _load_json_to_dataframe: None (isNone) when the path does not exist.
LoadJsonToDataframe(directory, filename) ==
  IF directory[filename].found
  THEN [isNone |-> FALSE, cols |-> JsonNormalize(directory[filename].doc)]
  ELSE [isNone |-> TRUE, cols |-> <<>>]

\* ------------------------------------------------ _get_discovery_differences

\* _get_keys_to_ignore: Python joins the adjacent literals 'title' 'url'
\* (no comma between them) into one entry.
KeysToIgnore ==
  << << "d", "e", "s", "c", "r", "i", "p", "t", "i", "o", "n" >>,
     << "d", "o", "c", "u", "m", "e", "n", "t", "a", "t", "i", "o", "n" >>,
     << "e", "n", "u", "m" >>,
     << "e", "t", "a", "g" >>,
     << "r", "e", "v", "i", "s", "i", "o", "n" >>,
     << "t", "i", "t", "l", "e" >> \o << "u", "r", "l" >>,
     << "r", "o", "o", "t", "U", "r", "l" >> >>

\* The entries in lower case, as the pattern matches them under case=False.
LoweredKeysToIgnore == [i \in 1..Len(KeysToIgnore) |-> Lower(KeysToIgnore[i])]

\* Series.str.contains('|'.join(keys_to_ignore), case=False) on one key.
StrContainsIgnored(key) ==
  LET lowered == Lower(key)
  IN  \E i \in 1..Len(LoweredKeysToIgnore) :
        Contains(lowered, LoweredKeysToIgnore[i])

\* The cell of `column` in a one-row frame, NaN when the frame lacks it.
Cell(frame, column) ==
  IF \E i \in 1..Len(frame.cols) : frame.cols[i][1] = column
  THEN frame.cols[CHOOSE i \in 1..Len(frame.cols) : frame.cols[i][1] = column][2]
  ELSE NaN

ColumnNames(frame) == [i \in 1..Len(frame.cols) |-> frame.cols[i][1]]

NotIn(seq, x) == \A i \in 1..Len(seq) : seq[i] # x

\* The columns of pd.concat([current_doc, new_doc]): those of the first frame,
\* then the ones only the second has.
RECURSIVE UnionColumns(_, _)
UnionColumns(first, second) ==
  IF second = <<>> THEN first
  ELSE IF NotIn(first, Head(second))
       THEN UnionColumns(Append(first, Head(second)), Tail(second))
       ELSE UnionColumns(first, Tail(second))

\* combined_docs: one row per key, with the two values side by side.
CombinedDocs(current_doc, new_doc) ==
  LET keys == UnionColumns(ColumnNames(current_doc), ColumnNames(new_doc))
  IN  [i \in 1..Len(keys) |->
         [Key |-> keys[i],
          CurrentValue |-> Cell(current_doc, keys[i]),
          NewValue |-> Cell(new_doc, keys[i])]]

\* combined_docs['CurrentValue'] != combined_docs['NewValue'], one row: a
\* comparison with a null on either side is True.
ValuesDiffer(row) ==
  IF IsNull(row.CurrentValue) \/ IsNull(row.NewValue)
  THEN TRUE
  ELSE ~PyEq(row.CurrentValue, row.NewValue)

\* np.where(deleted_condition, DELETED, np.where(added_condition, ADDED,
\* CHANGED)) on one row.
ChangeTypeOf(row) ==
  IF IsNull(row.NewValue) THEN DELETED
  ELSE IF IsNull(row.CurrentValue) THEN ADDED
  ELSE CHANGED

KeepRow(row) == ~StrContainsIgnored(row.Key)

\* The outcome of a call: a dataframe, or the exception it raised.
Returned(df) == [ok |-> TRUE, df |-> df, error |-> ""]

Raised(error) == [ok |-> FALSE, df |-> <<>>, error |-> error]

\* _get_discovery_differences(filename)
GetDiscoveryDifferences(current_dir, new_dir, filename) ==
  LET current_doc == LoadJsonToDataframe(current_dir, filename)
      new_doc == LoadJsonToDataframe(new_dir, filename)
      segments == SplitDot(filename)
      docs_diff == SelectSeq(CombinedDocs(current_doc, new_doc), ValuesDiffer)
      typed == [i \in 1..Len(docs_diff) |->
                  [Key |-> docs_diff[i].Key,
                   Name |-> segments[1],
                   Version |-> segments[2],
                   ChangeType |-> ChangeTypeOf(docs_diff[i])]]
  IN  IF current_doc.isNone /\ new_doc.isNone
      THEN Raised("ValueError")   \* pd.concat: all objects passed were None
      ELSE IF Len(segments) < 2
      THEN Raised("ValueError")   \* two columns, fewer than two values
      ELSE Returned(SelectSeq(typed, KeepRow))

\* ------------------------------------------------------------ sort_values

\* RowLess with 'ChangeType' left out of sort_columns.
RowLessWithoutChangeType(r, s) ==
  IF r.Name # s.Name THEN StrLess(r.Name, s.Name)
  ELSE IF r.Version # s.Version THEN StrLess(r.Version, s.Version)
  ELSE StrLess(r.Key, s.Key)

\* Row r sorts before row s under sort_columns = ['Name', 'Version',
\* 'ChangeType', 'Key'], ascending.
RowLess(r, s) ==
  IF r.Name # s.Name THEN StrLess(r.Name, s.Name)
  ELSE IF r.Version # s.Version THEN StrLess(r.Version, s.Version)
  ELSE IF r.ChangeType # s.ChangeType THEN r.ChangeType < s.ChangeType
  ELSE StrLess(r.Key, s.Key)

\* `row` put into the sorted `rows`, after the rows that do not sort after it.
RECURSIVE InsertRow(_, _)
InsertRow(rows, row) ==
  IF rows = <<>> THEN << row >>
  ELSE IF RowLess(row, Head(rows)) THEN << row >> \o rows
  ELSE << Head(rows) >> \o InsertRow(Tail(rows), row)

RECURSIVE InsertAll(_, _)
InsertAll(sorted, rows) ==
  IF rows = <<>> THEN sorted
  ELSE InsertAll(InsertRow(sorted, Head(rows)), Tail(rows))

\* SortValues with the sort left out.
SortValuesSkipped(df) == df

\* result.sort_values(by=sort_columns, ascending=True, inplace=True)
SortValues(df) == InsertAll(<<>>, df)

\* result.append(list of frames): the frames' rows, one frame after another.
RECURSIVE Concat(_)
Concat(frames) ==
  IF frames = <<>> THEN <<>> ELSE Head(frames) \o Concat(Tail(frames))

\* ------------------------------------------------ _get_summary_and_write_to_disk

\* _build_summary_message: '{0}({1}){2}: update the api\n'.format(api_name,
\* commit_type, breaking_change_char).  Text is a sequence of pieces: a name
\* character by character, a literal of the format as one piece.
BuildSummaryMessage(api_name, is_feature, is_breaking) ==
  api_name \o << "(" >> \o << IF is_feature THEN "feat" ELSE "fix" >>
    \o << ")" >> \o (IF is_breaking THEN << "!" >> ELSE <<>>)
    \o << ": update the api\n" >>

\* np.where(DELETED or ADDED, True, np.nan) on one row
IsFeature(row) ==
  IF row.ChangeType = DELETED \/ row.ChangeType = ADDED THEN "True" ELSE NaN

\* np.where(DELETED, True, np.nan) on one row
IsBreaking(row) == IF row.ChangeType = DELETED THEN "True" ELSE NaN

\* dataframe.groupby('Name').IsFeature.transform(lambda x : x.any()) for the
\* rows of `name`: any() skips NaN.
IsFeatureAggregate(df, name) ==
  \E i \in 1..Len(df) : df[i].Name = name /\ ~IsNull(IsFeature(df[i]))

\* IsBreakingAggregate without the groupby('Name'): any() over all rows.
IsBreakingAnyName(df, name) ==
  \E i \in 1..Len(df) : ~IsNull(IsBreaking(df[i]))

\* dataframe.groupby('Name').IsBreaking.transform(lambda x : x.any())
IsBreakingAggregate(df, name) ==
  \E i \in 1..Len(df) : df[i].Name = name /\ ~IsNull(IsBreaking(df[i]))

\* The dataframe with its Summary column.
SummaryDf(df) ==
  [i \in 1..Len(df) |->
     [Key |-> df[i].Key, Name |-> df[i].Name, Version |-> df[i].Version,
      ChangeType |-> df[i].ChangeType,
      Summary |-> BuildSummaryMessage(df[i].Name,
                                      IsFeatureAggregate(df, df[i].Name),
                                      IsBreakingAggregate(df, df[i].Name))]]

\* Series.unique(): the values in the order of their first appearance.
RECURSIVE Unique(_, _)
Unique(seen, values) ==
  IF values = <<>> THEN seen
  ELSE IF NotIn(seen, Head(values))
       THEN Unique(Append(seen, Head(values)), Tail(values))
       ELSE Unique(seen, Tail(values))

\* "".join([directory, "/", name])
PathJoin(directory, name) == << directory, "/" >> \o name

TempDir == "temp/"

SummaryPath == PathJoin(TempDir, << "allapis.summary" >>)

\* open(path, 'w'): the file is created, or cut to nothing.
OpenForWrite(disk, path) ==
  [q \in DOMAIN disk \cup {path} |-> IF q = path THEN <<>> ELSE disk[q]]

\* f.writelines(lines) and the flush of f.close(): the lines, one after
\* another, at the end of the file.
WriteLines(disk, path, lines) ==
  [disk EXCEPT ![path] = disk[path] \o Concat(lines)]

\* The file that _get_summary_and_write_to_disk leaves: allapis.summary.
WriteSummary(disk, summary_df) ==
  WriteLines(OpenForWrite(disk, SummaryPath), SummaryPath,
             Unique(<<>>, [i \in 1..Len(summary_df) |-> summary_df[i].Summary]))

\* ------------------------------------------------ _write_verbose_changes_to_disk

GroupKey(row) ==
  [Name |-> row.Name, Version |-> row.Version, ChangeType |-> row.ChangeType]

GroupKeyLess(g, h) ==
  IF g.Name # h.Name THEN StrLess(g.Name, h.Name)
  ELSE IF g.Version # h.Version THEN StrLess(g.Version, h.Version)
  ELSE g.ChangeType < h.ChangeType

RECURSIVE InsertGroupKey(_, _)
InsertGroupKey(keys, g) ==
  IF keys = <<>> THEN << g >>
  ELSE IF g = Head(keys) THEN keys
  ELSE IF GroupKeyLess(g, Head(keys)) THEN << g >> \o keys
  ELSE << Head(keys) >> \o InsertGroupKey(Tail(keys), g)

RECURSIVE GroupKeys(_, _)
GroupKeys(keys, df) ==
  IF df = <<>> THEN keys
  ELSE GroupKeys(InsertGroupKey(keys, GroupKey(Head(df))), Tail(df))

\* dataframe.groupby(['Name', 'Version', 'ChangeType']): the groups in the
\* order of their keys, each with the Key column of its rows in the order of
\* the dataframe.
GroupBy(df) ==
  LET keys == GroupKeys(<<>>, df)
  IN  [i \in 1..Len(keys) |->
         [name |-> keys[i],
          Key |-> LET rows == SelectSeq(df, LAMBDA r : GroupKey(r) = keys[i])
                  IN  [j \in 1..Len(rows) |-> rows[j].Key]]]

\* summary_df[summary_df["Name"] == api]["Summary"].iloc[0]
SummaryOf(summary_df, api) ==
  summary_df[CHOOSE i \in 1..Len(summary_df) :
               /\ summary_df[i].Name = api
               /\ \A j \in 1..(i - 1) : summary_df[j].Name # api].Summary

\* The locals of _write_verbose_changes_to_disk before its loop: no file is
\* open (f is None).
VerboseStart(disk) ==
  [disk |-> disk, fOpen |-> FALSE, fPath |-> <<>>, verbose_changes |-> <<>>,
   lastApi |-> <<>>, lastVersion |-> <<>>, lastType |-> UNKNOWN]

TypeLabel(currentType) ==
  IF currentType = DELETED THEN << "\nThe following keys were deleted:\n" >>
  ELSE IF currentType = ADDED THEN << "\nThe following keys were added:\n" >>
  ELSE << "\nThe following keys were changed:\n" >>

\* The body of the loop for one group, in two halves.  The first: a new api
\* or version writes and closes the file that is open, then opens the api's
\* file for writing and starts its lines over.
VerboseNewSection(s, group, directory, summary_df) ==
  LET currentApi == group.name.Name
      currentVersion == group.name.Version
      flushed == IF s.fOpen
                 THEN WriteLines(s.disk, s.fPath, s.verbose_changes)
                 ELSE s.disk
      path == PathJoin(directory, currentApi \o << "." >> \o << "verbose" >>)
  IN  IF s.lastApi # currentApi \/ s.lastVersion # currentVersion
      THEN [disk |-> OpenForWrite(flushed, path),
            fOpen |-> TRUE,
            fPath |-> path,
            verbose_changes |->
              << SummaryOf(summary_df, currentApi),
                 << "\n\n#### " >> \o currentApi \o << ":" >>
                   \o currentVersion \o << "\n\n" >> >>,
            lastApi |-> currentApi,
            lastVersion |-> currentVersion,
            lastType |-> UNKNOWN]
      ELSE s

\* The second half: a new change type adds its label and the keys of the
\* group.
VerboseKeys(s, group) ==
  IF group.name.ChangeType # s.lastType
  THEN [s EXCEPT
          !.verbose_changes =
             s.verbose_changes \o << TypeLabel(group.name.ChangeType) >>
               \o [j \in 1..Len(group.Key) |->
                     << "- " >> \o group.Key[j] \o << "\n" >>],
          !.lastType = group.name.ChangeType]
  ELSE s

RECURSIVE VerboseLoop(_, _, _, _)
VerboseLoop(s, groups, directory, summary_df) ==
  IF groups = <<>> THEN s
  ELSE VerboseLoop(
         VerboseKeys(VerboseNewSection(s, Head(groups), directory, summary_df),
                     Head(groups)),
         Tail(groups), directory, summary_df)

\* _write_verbose_changes_to_disk: the files it leaves.  After the loop the
\* function returns; the lines collected for the file still open are not
\* written.
WriteVerboseChangesToDisk(disk, df, directory, summary_df) ==
  VerboseLoop(VerboseStart(disk), GroupBy(df), directory, summary_df).disk

\* ----------------------------------------------------------------- state

VARIABLES
  pc,           \* "start", "ready", "pool", "done" or "raised"
  file_list,    \* the file_list argument: None (isNone), or its items
  current_dir,  \* the current artifacts directory: whether it exists, its files
  new_dir,      \* the new artifacts directory
  progress,     \* per batch of pool.map, the number of its files worked through
  aborted,      \* the batches that ended in an exception
  results,      \* per file of the list, what _get_discovery_differences gave
  error,        \* the exception raised, "" when none
  result,       \* the dataframe `result` of detect_discovery_changes
  disk          \* the files under temp/: path -> text

vars ==
  << pc, file_list, current_dir, new_dir, progress, aborted, results, error,
     result, disk >>

\* ---------------------------------------------------------------- inputs

\* The longest file list the whole run is explored on.
MaxFiles == 3

\* The most keys the two documents of a single diff have between them.
MaxDocKeys == 2

\* The length of the long lists: more than MULTIPROCESSING_NUM_PER_BATCH, so
\* that pool.map has two batches in flight.
MaxPoolFiles == 6

DriveV1 == << "d", "r", "i", "v", "e", ".", "v", "1", ".", "j", "s", "o", "n" >>
DriveV2 == << "d", "r", "i", "v", "e", ".", "v", "2", ".", "j", "s", "o", "n" >>
GmailV1 == << "g", "m", "a", "i", "l", ".", "v", "1", ".", "j", "s", "o", "n" >>
TasksV1 == << "t", "a", "s", "k", "s", ".", "v", "1", ".", "j", "s", "o", "n" >>
GmailV1Beta == << "g", "m", "a", "i", "l", ".", "v", "1", "b", "e", "t", "a", ".", "j", "s", "o", "n" >>
TasksV2 == << "t", "a", "s", "k", "s", ".", "v", "2", ".", "j", "s", "o", "n" >>
DriveV3 == << "d", "r", "i", "v", "e", ".", "v", "3", ".", "j", "s", "o", "n" >>

FileNames ==
  << DriveV1, DriveV2, GmailV1, TasksV1, GmailV1Beta, TasksV2, DriveV3 >>

AllFiles == {FileNames[i] : i \in 1..Len(FileNames)}

FirstFiles(n) ==
  {FileNames[i] : i \in 1..(IF n < Len(FileNames) THEN n ELSE Len(FileNames))}

Range(seq) == {seq[i] : i \in 1..Len(seq)}

\* The lists of at most n different elements of S.
RECURSIVE ListsOf(_, _)
ListsOf(S, n) ==
  IF n = 0 THEN {<<>>}
  ELSE LET shorter == ListsOf(S, n - 1)
           longer == UNION {{Append(l, x) : x \in S \ Range(l)} : l \in shorter}
       IN  shorter \cup longer

KId == << "i", "d" >>
KName == << "n", "a", "m", "e" >>
KKind == << "k", "i", "n", "d" >>
KSchemas == << "s", "c", "h", "e", "m", "a", "s" >>

\* The pairs (current, new) of one file that the whole pipeline is run on.
\* A value changed:
PairChanged ==
  [cur |-> File(<< <<KKind, Scalar(JOne)>>, <<KId, Scalar(JStrX)>> >>),
   new |-> File(<< <<KKind, Scalar(JOne)>>, <<KId, Scalar(JStrY)>> >>)]

\* a key deleted:
PairKeyDeleted ==
  [cur |-> File(<< <<KName, Scalar(JStrX)>>, <<KId, Scalar(JOne)>> >>),
   new |-> File(<< <<KId, Scalar(JOne)>> >>)]

\* a key added:
PairKeyAdded ==
  [cur |-> File(<< <<KId, Scalar(JOne)>> >>),
   new |-> File(<< <<KId, Scalar(JOne)>>, <<KName, Scalar(JStrX)>> >>)]

\* a new file:
PairNewFile ==
  [cur |-> NoFile,
   new |-> File(<< <<KName, Scalar(JStrX)>>, <<KId, Scalar(JOne)>> >>)]

\* a file removed:
PairFileRemoved ==
  [cur |-> File(<< <<KName, Scalar(JStrX)>>, <<KId, Scalar(JOne)>> >>),
   new |-> NoFile]

\* deleted, added and changed keys, some in a nested object:
PairMixed ==
  [cur |-> File(<< <<KSchemas, Object(<< <<KName, Scalar(JStrX)>>,
                                         <<KId, Scalar(JOne)>> >>)>>,
                   <<KName, Scalar(JStrX)>>,
                   <<KId, Scalar(JStrX)>> >>),
   new |-> File(<< <<KId, Scalar(JStrY)>>,
                   <<KSchemas, Object(<< <<KKind, Scalar(JTrue)>>,
                                         <<KId, Scalar(JStrX)>> >>)>>,
                   <<KKind, Scalar(JOne)>> >>)]

\* nothing changed:
PairSame ==
  [cur |-> File(<< <<KId, Scalar(JOne)>> >>),
   new |-> File(<< <<KId, Scalar(JOne)>> >>)]

\* the file is in neither directory.
PairNeither == [cur |-> NoFile, new |-> NoFile]

DocPairs ==
  { PairChanged, PairKeyDeleted, PairKeyAdded, PairNewFile, PairFileRemoved,
    PairMixed, PairSame, PairNeither }

\* A directory that holds, for the i-th file of `items`, what `pick` says.
DirOf(items, pick, side) ==
  [exists |-> TRUE,
   files |-> [f \in AllFiles |->
                IF \E i \in 1..Len(items) : items[i] = f
                THEN LET i == CHOOSE i \in 1..Len(items) : items[i] = f
                     IN  IF side = "cur" THEN pick[i].cur ELSE pick[i].new
                ELSE NoFile]]

EmptyDir(exists) == [exists |-> exists, files |-> [f \in AllFiles |-> NoFile]]

InitRest ==
  /\ pc = "start"
  /\ progress = <<>>
  /\ aborted = {}
  /\ results = <<>>
  /\ error = ""
  /\ result = <<>>
  /\ disk = <<>>

\* The arguments of the constructor: no list; a list and a directory that is
\* not there; a list of at most MaxFiles files, each with one of DocPairs.
Init ==
  /\ InitRest
  /\ \/ /\ file_list = [isNone |-> TRUE, items |-> <<>>]
        /\ current_dir = EmptyDir(TRUE)
        /\ new_dir = EmptyDir(TRUE)
     \/ /\ file_list \in
             {[isNone |-> FALSE, items |-> l] : l \in ListsOf(FirstFiles(4), 1)}
        /\ \E ce, ne \in BOOLEAN :
             /\ ~(ce /\ ne)
             /\ current_dir = EmptyDir(ce)
             /\ new_dir = EmptyDir(ne)
     \/ \E l \in ListsOf(FirstFiles(4), MaxFiles) :
          \E pick \in [1..Len(l) -> DocPairs] :
            /\ file_list = [isNone |-> FALSE, items |-> l]
            /\ current_dir = DirOf(l, pick, "cur")
            /\ new_dir = DirOf(l, pick, "new")

\* The keys of the documents that one diff is run on: the eight entries the
\* ignore list is meant to hold, a key that holds one of them in another
\* case, and two others.
KeyUniverse ==
  { << "d", "e", "s", "c", "r", "i", "p", "t", "i", "o", "n" >>, << "d", "o", "c", "u", "m", "e", "n", "t", "a", "t", "i", "o", "n" >>, << "e", "n", "u", "m" >>, << "e", "t", "a", "g" >>, << "r", "e", "v", "i", "s", "i", "o", "n" >>,
    << "t", "i", "t", "l", "e" >>, << "u", "r", "l" >>, << "r", "o", "o", "t", "U", "r", "l" >>, << "b", "a", "s", "e", "U", "r", "l" >>, KId, KKind }

Absent == "absent"

DocValues == {JStrX, JOne, JTrue, JNull}

\* The JSON object with the keys of `keys` that `values` gives a value.
RECURSIVE Members(_, _)
Members(keys, values) ==
  IF keys = <<>> THEN <<>>
  ELSE (IF Head(values) = Absent
        THEN <<>>
        ELSE << << Head(keys), Scalar(Head(values)) >> >>)
       \o Members(Tail(keys), Tail(values))

OneFileDir(f, entry) ==
  [exists |-> TRUE,
   files |-> [g \in AllFiles |-> IF g = f THEN entry ELSE NoFile]]

\* One file; its two documents have at most MaxDocKeys keys, each with any
\* value, or none, on either side; either document may be missing.
InitDiff ==
  /\ InitRest
  /\ file_list = [isNone |-> FALSE, items |-> << DriveV1 >>]
  /\ \E keys \in ListsOf(KeyUniverse, MaxDocKeys) :
       \E cv, nv \in [1..Len(keys) -> DocValues \cup {Absent}] :
         \E cf, nf \in BOOLEAN :
           /\ ~cf => \A i \in 1..Len(keys) : cv[i] = Absent
           /\ ~nf => \A i \in 1..Len(keys) : nv[i] = Absent
           /\ current_dir =
                OneFileDir(DriveV1,
                           IF cf THEN File(Members(keys, cv)) ELSE NoFile)
           /\ new_dir =
                OneFileDir(DriveV1,
                           IF nf THEN File(Members(keys, nv)) ELSE NoFile)

\* The documents of the files of a long list: one pair per file of FileNames.
PoolPairs ==
  << PairMixed, PairFileRemoved, PairChanged, PairNewFile, PairKeyAdded,
     PairMixed, PairKeyDeleted >>

\* The same, with the second file in neither directory.
PoolPairsOneMissing == [PoolPairs EXCEPT ![2] = PairNeither]

\* The list is the first MaxPoolFiles files in any order, more than one
\* batch of pool.map.
InitPool ==
  /\ InitRest
  /\ \E l \in ListsOf(FirstFiles(MaxPoolFiles), MaxPoolFiles) :
       \E pairs \in {PoolPairs, PoolPairsOneMissing} :
         /\ Len(l) = Cardinality(FirstFiles(MaxPoolFiles))
         /\ file_list = [isNone |-> FALSE, items |-> l]
         /\ current_dir = DirOf(FileNames, pairs, "cur")
         /\ new_dir = DirOf(FileNames, pairs, "new")

\* ------------------------------------------------------------- operations

\* ChangeSummary.__init__ with _raise_if_artifacts_dir_not_found
Construct ==
  /\ pc = "start"
  /\ IF file_list.isNone
     THEN pc' = "raised" /\ error' = "FileListCannotBeEmpty"
     ELSE IF ~new_dir.exists \/ ~current_dir.exists
     THEN pc' = "raised" /\ error' = "ArtifactsDirDoesNotExist"
     ELSE pc' = "ready" /\ error' = error
  /\ UNCHANGED << file_list, current_dir, new_dir, progress, aborted, results,
                  result, disk >>

\* The batches pool.map cuts the list into: chunksize files each, the last
\* one what is left.
NumBatches(n) ==
  (n + MULTIPROCESSING_NUM_PER_BATCH - 1) \div MULTIPROCESSING_NUM_PER_BATCH

BatchSize(b, n) ==
  IF b * MULTIPROCESSING_NUM_PER_BATCH <= n
  THEN MULTIPROCESSING_NUM_PER_BATCH
  ELSE n - (b - 1) * MULTIPROCESSING_NUM_PER_BATCH

Pending == [ok |-> FALSE, df |-> <<>>, error |-> "pending"]

\* detect_discovery_changes up to pool.map: the batches are queued.
StartPool ==
  /\ pc = "ready"
  /\ pc' = "pool"
  /\ progress' = [b \in 1..NumBatches(Len(file_list.items)) |-> 0]
  /\ results' = [i \in 1..Len(file_list.items) |-> Pending]
  /\ UNCHANGED << file_list, current_dir, new_dir, aborted, error, result,
                  disk >>

BatchStarted(b) == progress[b] > 0 \/ b \in aborted

BatchFinished(b) ==
  progress[b] = BatchSize(b, Len(file_list.items)) \/ b \in aborted

\* A worker of the pool works through the next file of batch b.  The workers
\* take the batches in the order of the list, at most
\* MULTIPROCESSING_NUM_AGENTS at a time; an exception ends the batch.
RunTask(b) ==
  /\ pc = "pool"
  /\ ~BatchFinished(b)
  /\ \/ BatchStarted(b)
     \/ /\ \A a \in 1..(b - 1) : BatchStarted(a)
        /\ Cardinality({a \in DOMAIN progress :
                          BatchStarted(a) /\ ~BatchFinished(a)})
             < MULTIPROCESSING_NUM_AGENTS
  /\ LET i == (b - 1) * MULTIPROCESSING_NUM_PER_BATCH + progress[b] + 1
         out == GetDiscoveryDifferences(current_dir.files, new_dir.files,
                                        file_list.items[i])
     IN  /\ results' = [results EXCEPT ![i] = out]
         /\ progress' = [progress EXCEPT ![b] = @ + 1]
         /\ aborted' = IF out.ok THEN aborted ELSE aborted \cup {b}
         /\ error' = IF ~out.ok /\ error = "" THEN out.error ELSE error
  /\ UNCHANGED << pc, file_list, current_dir, new_dir, result, disk >>

\* pool.map returns (or raises) when every batch has ended.
PoolMapReturns == \A b \in DOMAIN progress : BatchFinished(b)

\* detect_discovery_changes from the return of pool.map on: what it leaves
\* given the frames of the files and the exception of the pool, if any.
Aggregation(frames, pool_error, disk0) ==
  LET sorted == SortValues(Concat([i \in 1..Len(frames) |-> frames[i].df]))
      summary_df == SummaryDf(sorted)
  IN  IF pool_error # ""
      THEN [pc |-> "raised", error |-> pool_error, result |-> <<>>,
            disk |-> disk0]
      ELSE IF Len(frames) = 0   \* sort_values: the empty frame has no 'Name'
      THEN [pc |-> "raised", error |-> "KeyError", result |-> <<>>,
            disk |-> disk0]
      ELSE IF Len(sorted) = 0   \* np.vectorize on inputs of size 0
      THEN [pc |-> "raised", error |-> "ValueError", result |-> sorted,
            disk |-> disk0]
      ELSE [pc |-> "done", error |-> "", result |-> sorted,
            disk |-> WriteVerboseChangesToDisk(WriteSummary(disk0, summary_df),
                                               sorted, TempDir, summary_df)]

Aggregate ==
  /\ pc = "pool"
  /\ PoolMapReturns
  /\ LET out == Aggregation(results, error, disk)
     IN  /\ pc' = out.pc
         /\ error' = out.error
         /\ result' = out.result
         /\ disk' = out.disk
  /\ UNCHANGED << file_list, current_dir, new_dir, progress, aborted, results >>

Next ==
  \/ Construct
  \/ StartPool
  \/ \E b \in DOMAIN progress : RunTask(b)
  \/ Aggregate

Spec == Init /\ [][Next]_vars

SpecDiff == InitDiff /\ [][Next]_vars

SpecPool == InitPool /\ [][Next]_vars

\* ---------------------------------------------------------------- claims

\* What the claims are stated with: the two flattened documents of a file,
\* the records of a family, the text a verbose file is to hold.

\* The flattened document of a directory entry, empty when the file is
\* missing.
FlatDoc(entry) == IF entry.found THEN JsonNormalize(entry.doc) ELSE <<>>

HasKey(flat, key) == \E i \in 1..Len(flat) : flat[i][1] = key

ValueOf(flat, key) == flat[CHOOSE i \in 1..Len(flat) : flat[i][1] = key][2]

\* The ignore list as the specification gives it.
RecognizedIgnoreEntries ==
  { << "d", "e", "s", "c", "r", "i", "p", "t", "i", "o", "n" >>, << "d", "o", "c", "u", "m", "e", "n", "t", "a", "t", "i", "o", "n" >>, << "e", "n", "u", "m" >>, << "e", "t", "a", "g" >>, << "r", "e", "v", "i", "s", "i", "o", "n" >>,
    << "t", "i", "t", "l", "e" >>, << "u", "r", "l" >>, << "r", "o", "o", "t", "U", "r", "l" >> }

HoldsRecognizedEntry(key) ==
  \E e \in RecognizedIgnoreEntries : Contains(Lower(key), Lower(e))

\* The files whose diff has ended with a dataframe.
Diffed == {i \in DOMAIN results : results[i].ok}

Families(df) == {df[i].Name : i \in 1..Len(df)}

VersionsOf(df, family) ==
  {df[i].Version : i \in {j \in 1..Len(df) : df[j].Name = family}}

HasType(df, family, type) ==
  \E i \in 1..Len(df) : df[i].Name = family /\ df[i].ChangeType = type

ExpectedSummaryLine(df, family) ==
  IF HasType(df, family, DELETED)
  THEN family \o << "(", "feat", ")", "!", ": update the api\n" >>
  ELSE IF HasType(df, family, ADDED)
  THEN family \o << "(", "feat", ")", ": update the api\n" >>
  ELSE family \o << "(", "fix", ")", ": update the api\n" >>

\* The bullets of the keys of one family, version and type, under their
\* label; nothing when there is no such key.
ExpectedPart(df, family, version, type, label) ==
  LET rows == SelectSeq(df, LAMBDA r : /\ r.Name = family
                                       /\ r.Version = version
                                       /\ r.ChangeType = type)
  IN  IF rows = <<>> THEN <<>>
      ELSE << label >>
           \o Concat([j \in 1..Len(rows) |-> << "- " >> \o rows[j].Key \o << "\n" >>])

ExpectedSection(df, family, version) ==
  << "\n\n#### " >> \o family \o << ":" >> \o version \o << "\n\n" >>
    \o ExpectedPart(df, family, version, DELETED,
                    "\nThe following keys were deleted:\n")
    \o ExpectedPart(df, family, version, ADDED,
                    "\nThe following keys were added:\n")
    \o ExpectedPart(df, family, version, CHANGED,
                    "\nThe following keys were changed:\n")

VerbosePath(family) == << "temp/", "/" >> \o family \o << ".", "verbose" >>

IsPrefix(p, text) == Len(p) <= Len(text) /\ SubSeq(text, 1, Len(p)) = p

\* C1: every record of a key that the ignore list does not exclude is
\* Deleted iff the key is in the current document and not in the new one,
\* Added iff it is in the new one and not in the current one, Changed iff it
\* is in both with different values, and never Unknown.
C1_ClassificationByPresence ==
  \A i \in Diffed :
    \A j \in 1..Len(results[i].df) :
      LET r == results[i].df[j]
          cur == FlatDoc(current_dir.files[file_list.items[i]])
          new == FlatDoc(new_dir.files[file_list.items[i]])
          inCur == HasKey(cur, r.Key)
          inNew == HasKey(new, r.Key)
      IN  ~HoldsRecognizedEntry(r.Key) =>
            /\ r.ChangeType = DELETED <=> (inCur /\ ~inNew)
            /\ r.ChangeType = ADDED <=> (~inCur /\ inNew)
            /\ r.ChangeType = CHANGED <=>
                 (inCur /\ inNew /\ ValueOf(cur, r.Key) # ValueOf(new, r.Key))
            /\ r.ChangeType # UNKNOWN

\* C2: no record has a key that holds one of the eight recognized ignore
\* entries, in any case of the letters.
C2_IgnoredKeysHaveNoRecord ==
  \A i \in Diffed :
    \A j \in 1..Len(results[i].df) : ~HoldsRecognizedEntry(results[i].df[j].Key)

C4_VerboseFileWritten ==
  pc = "done" =>
    \A f \in Families(result) :
      /\ VerbosePath(f) \in DOMAIN disk
      /\ \E v \in VersionsOf(result, f) :
           IsPrefix(ExpectedSummaryLine(result, f) \o ExpectedSection(result, f, v),
                    disk[VerbosePath(f)])

\* The claim's ordering: ascending by (Family, Version, ChangeType, Key).
SortedBefore(r, s) ==
  \/ StrLess(r.Name, s.Name)
  \/ r.Name = s.Name /\ StrLess(r.Version, s.Version)
  \/ r.Name = s.Name /\ r.Version = s.Version /\ r.ChangeType < s.ChangeType
  \/ /\ r.Name = s.Name /\ r.Version = s.Version
     /\ r.ChangeType = s.ChangeType /\ ~StrLess(s.Key, r.Key)

\* C5: the records handed to the summary and to the verbose report are in
\* ascending order of (Family, Version, ChangeType, Key): within a family and
\* version Deleted come before Added, Added before Changed, and the records
\* of one family, version and type are next to each other.
C5_ResultSorted ==
  pc = "done" =>
    /\ \A i, j \in 1..Len(result) : i < j => SortedBefore(result[i], result[j])
    /\ \A i, j \in 1..Len(result) :
         (/\ i < j
          /\ result[i].Name = result[j].Name
          /\ result[i].Version = result[j].Version)
           => result[i].ChangeType <= result[j].ChangeType
    /\ \A i, j, k \in 1..Len(result) :
         (i < k /\ k < j /\ GroupKey(result[i]) = GroupKey(result[j]))
           => GroupKey(result[k]) = GroupKey(result[i])

\* C5's case: the frames as pool.map gave them were not in order, and one
\* family and version has records of all three types.
C5_Witness ==
  /\ pc = "done"
  /\ result # Concat([i \in 1..Len(results) |-> results[i].df])
  /\ Cardinality(Families(result)) > 1
  /\ \E i, j, k \in 1..Len(result) :
       /\ result[i].Name = result[j].Name /\ result[j].Name = result[k].Name
       /\ result[i].Version = result[j].Version
       /\ result[j].Version = result[k].Version
       /\ result[i].ChangeType = DELETED
       /\ result[j].ChangeType = ADDED
       /\ result[k].ChangeType = CHANGED

\* C6: a diff whose file is missing in a directory does not raise; it gives
\* what it gives with an empty document in the place of the missing one
\* (nothing, when both are missing).
C6_MissingDocumentNeverRaises ==
  \A i \in DOMAIN results :
    LET f == file_list.items[i]
        cur == current_dir.files[f]
        new == new_dir.files[f]
        emptied(files) ==
          [g \in AllFiles |-> IF files[g].found THEN files[g] ELSE File(<<>>)]
    IN  (results[i] # Pending /\ (~cur.found \/ ~new.found)) =>
          /\ results[i].ok
          /\ results[i] = GetDiscoveryDifferences(emptied(current_dir.files),
                                                  emptied(new_dir.files), f)
          /\ (~cur.found /\ ~new.found) => results[i].df = <<>>

\* C7: with no list of files, None or the empty list, the constructor raises
\* FileListCannotBeEmpty.
C7_EmptyFileListRaises ==
  (pc # "start" /\ (file_list.isNone \/ file_list.items = <<>>)) =>
    (pc = "raised" /\ error = "FileListCannotBeEmpty")

\* C8: the diff of a document with itself has no record.
C8_DiffWithItselfIsEmpty ==
  \A i \in DOMAIN results :
    LET cur == current_dir.files[file_list.items[i]]
        new == new_dir.files[file_list.items[i]]
    IN  (results[i] # Pending /\ cur.found /\ new.found /\ cur.doc = new.doc) =>
          (results[i].ok /\ results[i].df = <<>>)

\* `part` is in `text`, in one piece.
Within(text, part) ==
  \E i \in 1..(Len(text) - Len(part) + 1) :
    SubSeq(text, i, i + Len(part) - 1) = part

\* C9: when the run is done, the verbose file of a family with records of
\* two or more versions holds the section of each of these versions.
C9_EveryVersionKeepsItsSection ==
  pc = "done" =>
    \A f \in Families(result) :
      Cardinality(VersionsOf(result, f)) >= 2 =>
        /\ VerbosePath(f) \in DOMAIN disk
        /\ \A v \in VersionsOf(result, f) :
             Within(disk[VerbosePath(f)], ExpectedSection(result, f, v))

\* The files of a set, in the order of their names.
RECURSIVE InNameOrder(_)
InNameOrder(S) ==
  IF S = {} THEN <<>>
  ELSE LET first == CHOOSE f \in S : \A g \in S \ {f} : StrLess(f, g)
       IN  << first >> \o InNameOrder(S \ {first})

\* What detect_discovery_changes leaves when the files of the list are
\* diffed one after another in the order of their names.
InOrderOutcome ==
  LET items == InNameOrder(Range(file_list.items))
      frames == [i \in 1..Len(items) |->
                   GetDiscoveryDifferences(current_dir.files, new_dir.files,
                                           items[i])]
      bad == {i \in 1..Len(items) : ~frames[i].ok}
  IN  Aggregation(frames,
                  IF bad = {} THEN "" ELSE frames[CHOOSE i \in bad : TRUE].error,
                  <<>>)

\* C10: the aggregation has the diff of every file, and the sorted records,
\* the summary and the verbose files (or the exception) are those of the
\* files diffed one after another in the order of their names, whatever the
\* order of the list and the order in which the batches of the pool ended.
C10_OutputIndependentOfScheduling ==
  /\ pc = "done" => \A i \in DOMAIN results : results[i].ok
  /\ (pc \in {"done", "raised"} /\ results # <<>>) =>
       /\ \A b \in DOMAIN progress : BatchFinished(b)
       /\ [pc |-> pc, error |-> error, result |-> result, disk |-> disk]
            = InOrderOutcome

\* C10's case: a list of more than one batch that is not in the order of
\* its names has been aggregated.
C10_Witness ==
  /\ pc = "done"
  /\ NumBatches(Len(file_list.items)) > 1
  /\ file_list.items # InNameOrder(Range(file_list.items))
  /\ result # Concat([i \in 1..Len(results) |-> results[i].df])

====
